---- MODULE Spec2Model ----
(***************************************************************************)
(* Tic-Tac-Toe with exhaustive minimax search: "0 Search/minimax.py".      *)
(*                                                                         *)
(* The class TicTacToe is modelled operation by operation.  A board is a   *)
(* function  row -> column -> cell  over range(3); an action is a pair     *)
(* <<i, j>>.  Python's None is EMPTY for a cell and None for an action or  *)
(* a missing board.  actions(board) is a Python set, whose iteration order *)
(* the language leaves open: a search iterates in the order ord, one of    *)
(* Orders.                                                                 *)
(***************************************************************************)
EXTENDS Integers, Sequences, FiniteSets, TLC

VARIABLES
  board,      \* self.board in play_game; the board argument of a call otherwise
  ord,        \* the order in which the next search iterates a set of actions
  pc,         \* where the caller is: "loop" / "done" in play_game
  action,     \* the action minimax returned last (play_game's local action)
  output,     \* play_game: the last message printed
  new_board,  \* the board the last call of result returned (None: no board)
  raised,     \* the exception the last call of result raised (None: none)
  arg,        \* the action the last call of result was given
  ret         \* what the last call of max_value or min_value returned

vars == <<board, ord, pc, action, output, new_board, raised, arg, ret>>

----------------------------------------------------------------------------
(* Values *)

X == "X"
O == "O"
EMPTY == "None"
None == <<>>
inf == 2
InvalidAction == <<"Invalid action">>

Idx == 0..2
Cells == {<<0,0>>, <<0,1>>, <<0,2>>, <<1,0>>, <<1,1>>, <<1,2>>, <<2,0>>, <<2,1>>, <<2,2>>}

EmptyBoard == [i \in Idx |-> [j \in Idx |-> EMPTY]]

(* Iteration orders of a set of cells.  RowMajor is insertion order (an    *)
(* interpreter whose sets keep it), HashOrder is the order CPython 3.11    *)
(* gives the nine tuples, ReverseRowMajor is a third order.                *)
RowMajor ==
  << <<0,0>>, <<0,1>>, <<0,2>>, <<1,0>>, <<1,1>>, <<1,2>>, <<2,0>>, <<2,1>>, <<2,2>> >>
HashOrder ==
  << <<0,1>>, <<1,2>>, <<2,1>>, <<0,0>>, <<1,1>>, <<2,0>>, <<0,2>>, <<2,2>>, <<1,0>> >>
ReverseRowMajor ==
  << <<2,2>>, <<2,1>>, <<2,0>>, <<1,2>>, <<1,1>>, <<1,0>>, <<0,2>>, <<0,1>>, <<0,0>> >>
Orders == {RowMajor, HashOrder, ReverseRowMajor}

----------------------------------------------------------------------------
(* Board model *)

(* Variant of actions: the loop over i stops before the last row. *)
actions_short(b) == {a \in Cells : a[1] < 2 /\ b[a[1]][a[2]] = EMPTY}

actions(b) == {a \in Cells : b[a[1]][a[2]] = EMPTY}

count(b, p) == Cardinality({a \in Cells : b[a[1]][a[2]] = p})

(* Variants of player: X only when strictly behind; X also when ahead. *)
player_lt(b) == IF count(b, X) < count(b, O) THEN X ELSE O
player_ge(b) == IF count(b, X) >= count(b, O) THEN X ELSE O

player(b) == IF count(b, X) <= count(b, O) THEN X ELSE O

(* copy.deepcopy: a new object with the same contents. *)
deepcopy(b) == [i \in Idx |-> [j \in Idx |-> b[i][j]]]

(* Variants of result: without the membership test; writing into the     *)
(* argument itself instead of a copy.                                    *)
result_unchecked(b, a) ==
  [raised |-> None,
   new_board |-> [deepcopy(b) EXCEPT ![a[1]][a[2]] = player(b)],
   board |-> b]
result_alias(b, a) ==
  IF a \notin actions(b)
  THEN [raised |-> InvalidAction, new_board |-> None, board |-> b]
  ELSE [raised |-> None,
        new_board |-> [b EXCEPT ![a[1]][a[2]] = player(b)],
        board |-> [b EXCEPT ![a[1]][a[2]] = player(b)]]

(* result returns a record: raised (the exception, or None), new_board (the *)
(* board returned, or None) and board (the argument object after the call). *)
result(b, a) ==
  IF a \notin actions(b)
  THEN [raised |-> InvalidAction, new_board |-> None, board |-> b]
  ELSE [raised |-> None,
        new_board |-> [deepcopy(b) EXCEPT ![a[1]][a[2]] = player(b)],
        board |-> b]

RowWon(b, i) == b[i][0] = b[i][1] /\ b[i][1] = b[i][2] /\ b[i][0] # EMPTY
ColWon(b, j) == b[0][j] = b[1][j] /\ b[1][j] = b[2][j] /\ b[0][j] # EMPTY

winner(b) ==
  IF \E i \in Idx : RowWon(b, i)
  THEN b[CHOOSE i \in Idx : RowWon(b, i) /\ \A k \in 0..(i - 1) : ~RowWon(b, k)][0]
  ELSE IF \E j \in Idx : ColWon(b, j)
  THEN b[0][CHOOSE j \in Idx : ColWon(b, j) /\ \A k \in 0..(j - 1) : ~ColWon(b, k)]
  ELSE IF b[0][0] = b[1][1] /\ b[1][1] = b[2][2] /\ b[0][0] # EMPTY THEN b[0][0]
  ELSE IF b[0][2] = b[1][1] /\ b[1][1] = b[2][0] /\ b[0][2] # EMPTY THEN b[0][2]
  ELSE EMPTY

(* Variant of terminal: over only when the board is full. *)
terminal_full_only(b) == Cardinality(actions(b)) = 0

terminal(b) == winner(b) # EMPTY \/ Cardinality(actions(b)) = 0

(* Variant of utility: 1 for any winner. *)
utility_unsigned(b) ==
  LET w == winner(b)
  IN IF w = X THEN 1 ELSE IF w = O THEN 1 ELSE 0

utility(b) ==
  LET w == winner(b)
  IN IF w = X THEN 1 ELSE IF w = O THEN -1 ELSE 0

----------------------------------------------------------------------------
(* Minimax search *)

(* Variant of the iteration: over every cell, empty or not. *)
EnumerateCells(S) == ord

(* Variant of the iteration: over sorted(actions). *)
EnumerateSorted(S) == SelectSeq(RowMajor, LAMBDA a : a \in S)

(* "for action in self.actions(board)": the set's elements in the order ord. *)
Enumerate(S) == SelectSeq(ord, LAMBDA a : a \in S)

RECURSIVE max_value(_), min_value(_), MaxLoop(_, _, _, _), MinLoop(_, _, _, _)

(* Variant of the loop of max_value: the first action visited is kept. *)
MaxLoopFirstAction(b, todo, v, best_action) ==
  IF todo = <<>> THEN <<v, best_action>>
  ELSE LET r == result(b, Head(todo))
       IN IF r.raised # None THEN r.raised
          ELSE LET m == min_value(r.new_board)
               IN IF Len(m) = 1 THEN m ELSE <<m[1], Head(todo)>>

(* Variants of the loops: a tie replaces the best action (>=, <=). *)
MaxLoopLastWins(b, todo, v, best_action) ==
  IF todo = <<>> THEN <<v, best_action>>
  ELSE LET r == result(b, Head(todo))
       IN IF r.raised # None THEN r.raised
          ELSE LET m == min_value(r.new_board)
               IN IF Len(m) = 1 THEN m
                  ELSE IF m[1] >= v
                       THEN MaxLoop(b, Tail(todo), m[1], Head(todo))
                       ELSE MaxLoop(b, Tail(todo), v, best_action)
MinLoopLastWins(b, todo, v, best_action) ==
  IF todo = <<>> THEN <<v, best_action>>
  ELSE LET r == result(b, Head(todo))
       IN IF r.raised # None THEN r.raised
          ELSE LET m == max_value(r.new_board)
               IN IF Len(m) = 1 THEN m
                  ELSE IF m[1] <= v
                       THEN MinLoop(b, Tail(todo), m[1], Head(todo))
                       ELSE MinLoop(b, Tail(todo), v, best_action)

(* The loop of max_value over the actions still to visit, todo, with the   *)
(* locals v and best_action.  An exception of result or of the recursive   *)
(* call leaves the loop and the function.                                  *)
MaxLoop(b, todo, v, best_action) ==
  IF todo = <<>> THEN <<v, best_action>>
  ELSE LET r == result(b, Head(todo))
       IN IF r.raised # None THEN r.raised
          ELSE LET m == min_value(r.new_board)
               IN IF Len(m) = 1 THEN m
                  ELSE IF m[1] > v
                       THEN MaxLoop(b, Tail(todo), m[1], Head(todo))
                       ELSE MaxLoop(b, Tail(todo), v, best_action)

MinLoop(b, todo, v, best_action) ==
  IF todo = <<>> THEN <<v, best_action>>
  ELSE LET r == result(b, Head(todo))
       IN IF r.raised # None THEN r.raised
          ELSE LET m == max_value(r.new_board)
               IN IF Len(m) = 1 THEN m
                  ELSE IF m[1] < v
                       THEN MinLoop(b, Tail(todo), m[1], Head(todo))
                       ELSE MinLoop(b, Tail(todo), v, best_action)

(* Variants of the searches: max_value starting from +inf; min_value     *)
(* starting from -inf.                                                   *)
max_value_inf(b) ==
  IF terminal(b) THEN <<utility(b), None>>
  ELSE MaxLoop(b, Enumerate(actions(b)), inf, None)
min_value_neg(b) ==
  IF terminal(b) THEN <<utility(b), None>>
  ELSE MinLoop(b, Enumerate(actions(b)), -inf, None)

max_value(b) ==
  IF terminal(b) THEN <<utility(b), None>>
  ELSE MaxLoop(b, Enumerate(actions(b)), -inf, None)

min_value(b) ==
  IF terminal(b) THEN <<utility(b), None>>
  ELSE MinLoop(b, Enumerate(actions(b)), inf, None)

(* Variant of minimax: max_value for either player. *)
minimax_always_max(b) ==
  IF terminal(b) THEN None
  ELSE LET m == max_value(b) IN IF Len(m) = 1 THEN m ELSE m[2]

(* minimax returns an action, None, or the exception that left it. *)
minimax(b) ==
  IF terminal(b) THEN None
  ELSE IF player(b) = X
       THEN LET m == max_value(b) IN IF Len(m) = 1 THEN m ELSE m[2]
       ELSE LET m == min_value(b) IN IF Len(m) = 1 THEN m ELSE m[2]

----------------------------------------------------------------------------
(* play_game *)

(* Variant of make_move: without the test that the cell is empty. *)
make_move_overwrite(b, row, col) ==
  [returned |-> TRUE, board |-> [b EXCEPT ![row][col] = player(b)]]

(* make_move on self.board: the value returned and self.board afterwards. *)
make_move(b, row, col) ==
  IF b[row][col] # EMPTY
  THEN [returned |-> FALSE, board |-> b]
  ELSE [returned |-> TRUE, board |-> [b EXCEPT ![row][col] = player(b)]]

Margin == 1
InputRange == (0 - Margin)..(2 + Margin)

Init ==
  /\ board = EmptyBoard
  /\ ord \in Orders
  /\ pc = "loop"
  /\ action = None
  /\ output = "Welcome to Tic Tac Toe!"
  /\ new_board = None
  /\ raised = None
  /\ arg = None
  /\ ret = None

(* A human turn whose line is not two tokens, or not two integers. *)
HumanMalformed ==
  /\ pc = "loop" /\ ~terminal(board) /\ player(board) = X
  /\ \E msg \in {"Please enter row and column separated by space",
                  "Please enter valid numbers for row and column"} :
       output' = msg
  /\ UNCHANGED <<board, ord, pc, action, new_board, raised, arg, ret>>

(* A human turn whose line is the two integers row and col. *)
HumanMove ==
  /\ pc = "loop" /\ ~terminal(board) /\ player(board) = X
  /\ \E row \in InputRange, col \in InputRange :
       IF row < 0 \/ row > 2 \/ col < 0 \/ col > 2
       THEN /\ output' = "Row and column must be between 0 and 2"
            /\ board' = board
       ELSE LET mm == make_move(board, row, col)
            IN /\ board' = mm.board
               /\ output' = IF mm.returned THEN "Your move (row col): "
                            ELSE "That position is already taken!"
  /\ UNCHANGED <<ord, pc, action, new_board, raised, arg, ret>>

(* The computer's turn; the set order of the next search is open. *)
ComputerTurn ==
  /\ pc = "loop" /\ ~terminal(board) /\ player(board) = O
  /\ action' = minimax(board)
  /\ IF action' # None
     THEN /\ board' = make_move(board, action'[1], action'[2]).board
          /\ output' = "Computer chose position"
     ELSE /\ board' = board
          /\ output' = "Computer is thinking..."
  /\ ord' \in Orders
  /\ UNCHANGED <<pc, new_board, raised, arg, ret>>

(* The loop ends on a terminal board and the result is announced. *)
GameOver ==
  /\ pc = "loop" /\ terminal(board)
  /\ pc' = "done"
  /\ output' = IF winner(board) = X THEN "Congratulations! You won!"
               ELSE IF winner(board) = O THEN "Computer wins! Better luck next time."
               ELSE "It's a tie!"
  /\ UNCHANGED <<board, ord, action, new_board, raised, arg, ret>>

Next == HumanMalformed \/ HumanMove \/ ComputerTurn \/ GameOver

Spec == Init /\ [][Next]_vars

----------------------------------------------------------------------------
(* Both sides played by minimax: best action, then result, until terminal. *)

InitSelfPlay ==
  /\ board = EmptyBoard
  /\ ord \in Orders
  /\ pc = "think"
  /\ action = None
  /\ output = None
  /\ new_board = None
  /\ raised = None
  /\ arg = None
  /\ ret = None

SelfThink ==
  /\ pc = "think" /\ ~terminal(board)
  /\ action' = minimax(board)
  /\ pc' = "apply"
  /\ UNCHANGED <<board, ord, output, new_board, raised, arg, ret>>

SelfApply ==
  /\ pc = "apply"
  /\ arg' = action
  /\ raised' = result(board, action).raised
  /\ new_board' = result(board, action).new_board
  /\ board' = IF raised' = None THEN new_board' ELSE board
  /\ pc' = IF raised' = None THEN "think" ELSE "raised"
  /\ ord' \in Orders
  /\ UNCHANGED <<action, output, ret>>

SelfOver ==
  /\ pc = "think" /\ terminal(board)
  /\ pc' = "over"
  /\ UNCHANGED <<board, ord, action, output, new_board, raised, arg, ret>>

NextSelfPlay == SelfThink \/ SelfApply \/ SelfOver

SelfPlaySpec == InitSelfPlay /\ [][NextSelfPlay]_vars

----------------------------------------------------------------------------
(* Calls of result, with any pair of coordinates, from the empty board on:  *)
(* the caller rebinds its board to the board returned, or handles the       *)
(* exception and keeps its board.                                          *)

InitResult ==
  /\ board = EmptyBoard
  /\ ord = RowMajor
  /\ pc = "idle"
  /\ action = None
  /\ output = None
  /\ new_board = None
  /\ raised = None
  /\ arg = None
  /\ ret = None

CallResult ==
  /\ pc = "idle"
  /\ \E a \in InputRange \X InputRange :
       /\ arg' = a
       /\ raised' = result(board, a).raised
       /\ new_board' = result(board, a).new_board
       /\ board' = result(board, a).board
  /\ pc' = "returned"
  /\ UNCHANGED <<ord, action, output, ret>>

Rebind ==
  /\ pc = "returned" /\ raised = None
  /\ board' = new_board
  /\ new_board' = None
  /\ arg' = None
  /\ pc' = "idle"
  /\ UNCHANGED <<ord, action, output, raised, ret>>

Handle ==
  /\ pc = "returned" /\ raised # None
  /\ raised' = None
  /\ arg' = None
  /\ pc' = "idle"
  /\ UNCHANGED <<board, ord, action, output, new_board, ret>>

NextResult == CallResult \/ Rebind \/ Handle

ResultSpec == InitResult /\ [][NextResult]_vars

(* The game board of play_game and the boards of result, side by side. *)
BoardSpec == (Init \/ InitResult) /\ [][Next \/ NextResult]_vars

----------------------------------------------------------------------------
(* Calls of the search on the boards that result builds from the empty     *)
(* board: minimax (MinimaxSpec), max_value on X's turn and min_value on    *)
(* O's turn (ValueSpec).  A search is started on a board with at most      *)
(* MaxEmpty (MaxValueEmpty) empty cells.                                   *)

MaxEmpty == 6
MaxValueEmpty == 5

InitSearch ==
  /\ board = EmptyBoard
  /\ ord \in Orders
  /\ pc = "search"
  /\ action = None
  /\ output = None
  /\ new_board = None
  /\ raised = None
  /\ arg = None
  /\ ret = None

Place ==
  /\ pc \in {"search", "called"}
  /\ \E a \in actions(board) : board' = result(board, a).new_board
  /\ pc' = "search"
  /\ action' = None
  /\ ret' = None
  /\ UNCHANGED <<ord, output, new_board, raised, arg>>

CallMinimax ==
  /\ pc = "search"
  /\ Cardinality(actions(board)) <= MaxEmpty
  /\ action' = minimax(board)
  /\ pc' = "called"
  /\ UNCHANGED <<board, ord, output, new_board, raised, arg, ret>>

CallValue ==
  /\ pc = "search"
  /\ Cardinality(actions(board)) <= MaxValueEmpty
  /\ ret' = IF player(board) = X THEN max_value(board) ELSE min_value(board)
  /\ pc' = "called"
  /\ UNCHANGED <<board, ord, action, output, new_board, raised, arg>>

NextMinimax == Place \/ CallMinimax

MinimaxSpec == InitSearch /\ [][NextMinimax]_vars

NextValue == Place \/ CallValue

ValueSpec == InitSearch /\ [][NextValue]_vars

----------------------------------------------------------------------------
(* Calls of actions, winner, utility and terminal on any board at all: any *)
(* assignment of None, X and O to the nine cells, reachable in a game or   *)
(* not.  ret holds what the four calls returned.                           *)

AllBoards == [Idx -> [Idx -> {EMPTY, X, O}]]

InitAnyBoard ==
  /\ board \in AllBoards
  /\ ord = RowMajor
  /\ pc = "any"
  /\ action = None
  /\ output = None
  /\ new_board = None
  /\ raised = None
  /\ arg = None
  /\ ret = None

Inspect ==
  /\ pc = "any"
  /\ ret' = <<actions(board), winner(board), utility(board), terminal(board)>>
  /\ pc' = "inspected"
  /\ UNCHANGED <<board, ord, action, output, new_board, raised, arg>>

NextAnyBoard == Inspect

AnyBoardSpec == InitAnyBoard /\ [][NextAnyBoard]_vars

----------------------------------------------------------------------------
(* A legal game: from the empty board the players place marks in turn with *)
(* result, any empty cell each time, and stop once the board is terminal.  *)

InitLegal ==
  /\ board = EmptyBoard
  /\ ord = RowMajor
  /\ pc = "play"
  /\ action = None
  /\ output = None
  /\ new_board = None
  /\ raised = None
  /\ arg = None
  /\ ret = None

(* Variant of Play: the players go on after the board is terminal. *)
PlayOn ==
  /\ pc = "play"
  /\ \E a \in actions(board) :
       /\ arg' = a
       /\ board' = result(board, a).new_board
  /\ UNCHANGED <<ord, pc, action, output, new_board, raised, ret>>

Play ==
  /\ pc = "play" /\ ~terminal(board)
  /\ \E a \in actions(board) :
       /\ arg' = a
       /\ board' = result(board, a).new_board
  /\ UNCHANGED <<ord, pc, action, output, new_board, raised, ret>>

Stop ==
  /\ pc = "play" /\ terminal(board)
  /\ pc' = "stopped"
  /\ UNCHANGED <<board, ord, action, output, new_board, raised, arg, ret>>

NextLegal == Play \/ Stop

LegalSpec == InitLegal /\ [][NextLegal]_vars

(* The legal games and the games of play_game, side by side. *)
GameSpec == (Init \/ InitLegal) /\ [][Next \/ NextLegal]_vars

----------------------------------------------------------------------------
(* Properties *)

CountInv(b) == count(b, X) = count(b, O) \/ count(b, X) = count(b, O) + 1

Corners == {<<0,0>>, <<0,2>>, <<2,0>>, <<2,2>>}
Center == <<1,1>>

(* a call of result has just returned *)
ResultReturns == pc = "idle" /\ pc' = "returned"

(* the eight lines of the board: three rows, three columns, two diagonals *)
Lines ==
  {{<<i, j>> : j \in Idx} : i \in Idx} \cup {{<<i, j>> : i \in Idx} : j \in Idx}
    \cup {{<<i, i>> : i \in Idx}, {<<i, 2 - i>> : i \in Idx}}

(* the lines of b that hold three marks of p; the lines completed at all *)
LinesOf(b, p) == {l \in Lines : \A c \in l : b[c[1]][c[2]] = p}
CompletedLines(b) == LinesOf(b, X) \cup LinesOf(b, O)

(* C1: in play_game (human X with any legal moves, computer O with the     *)
(* action of minimax) no board has X as winner, and the game never ends    *)
(* with the message that the human won, whatever the set order.            *)
C1_ComputerNeverLoses ==
  /\ winner(board) # X
  /\ output # "Congratulations! You won!"

(* a game of play_game that the computer has won *)
C1_Witness == pc = "done" /\ winner(board) = O /\ action \in Cells

(* C2: when both sides play the action of minimax from the empty board,    *)
(* applied with result, every action applied fills an empty cell (so the   *)
(* game ends within nine moves, never on an exception), and every terminal *)
(* board reached has winner None and utility 0.                            *)
C2_SelfPlayEndsInDraw ==
  /\ terminal(board) => (winner(board) = EMPTY /\ utility(board) = 0)
  /\ pc = "apply" => action \in actions(board)
  /\ pc # "raised"

(* a self-played game that has ended on a full board *)
C2_Witness == pc = "over" /\ actions(board) = {} /\ winner(board) = EMPTY

(* C3: on a non-terminal board minimax returns a member of actions(board). *)
C3_MinimaxReturnsLegalAction ==
  (pc = "called" /\ ~terminal(board)) => action \in actions(board)

(* minimax has returned a legal action on a board with six empty cells *)
C3_Witness ==
  /\ pc = "called" /\ ~terminal(board) /\ action \in actions(board)
  /\ player(board) = O /\ Cardinality(actions(board)) = 6

(* C4: result given an occupied cell, or a coordinate outside 0..2, raises *)
(* 'Invalid action', returns no board and leaves its argument as it was.   *)
C4_ResultRejects ==
  [][(ResultReturns /\ (arg' \notin Cells \/ board[arg'[1]][arg'[2]] # EMPTY))
       => (raised' = InvalidAction /\ new_board' = None /\ board' = board)]_vars

(* result has raised on an occupied cell of a board in play *)
C4_Witness ==
  /\ pc = "returned" /\ raised = InvalidAction
  /\ arg \in Cells /\ board[arg[1]][arg[2]] = O

(* C5: result given a member of actions(board) returns a board that equals *)
(* its argument in the 8 other cells and holds player(board) in the target *)
(* cell, and leaves its argument as it was.                                *)
C5_ResultPlacesOneMark ==
  [][(ResultReturns /\ arg' \in actions(board))
       => /\ raised' = None
          /\ DOMAIN new_board' = Idx
          /\ \A c \in Cells :
               new_board'[c[1]][c[2]] =
                 IF c = arg' THEN player(board) ELSE board[c[1]][c[2]]
          /\ board' = board]_vars

(* result has returned a board with the new mark on a board in play *)
C5_Witness ==
  /\ pc = "returned" /\ raised = None /\ arg \in Cells
  /\ count(board, X) = 2 /\ count(new_board, O) = 2

(* C6: on every board reached from the empty board by successful calls of  *)
(* result, and on the game board throughout play_game, the number of X     *)
(* cells equals the number of O cells or exceeds it by exactly one.        *)
C6_CountInvariant ==
  /\ CountInv(board)
  /\ (pc = "returned" /\ raised = None) => CountInv(new_board)

(* result has returned a full board: five X and four O *)
C6_Witness ==
  /\ pc = "returned" /\ raised = None
  /\ count(new_board, X) = 5 /\ count(new_board, O) = 4

(* C7: along successful calls of result from the empty board the marks     *)
(* placed alternate X, O, X, ... starting with X, and player(board) is X   *)
(* when the counts are equal and O otherwise.                              *)
C7_MarksAlternate ==
  [][(ResultReturns /\ raised' = None)
       => /\ new_board'[arg'[1]][arg'[2]] =
               (IF (count(board, X) + count(board, O)) % 2 = 0 THEN X ELSE O)
          /\ player(board) = (IF count(board, X) = count(board, O) THEN X ELSE O)
          /\ player(new_board') # player(board)]_vars

(* the fourth mark placed is an O *)
C7_Witness ==
  /\ pc = "returned" /\ raised = None
  /\ count(board, X) + count(board, O) = 3 /\ new_board[arg[1]][arg[2]] = O

(* the values of the successors of b, in the order its actions are visited *)
SuccessorValues(b) ==
  LET todo == Enumerate(actions(b))
  IN SubSeq([k \in 1..Len(todo) |->
               IF player(b) = X
               THEN min_value(result(b, todo[k]).new_board)[1]
               ELSE max_value(result(b, todo[k]).new_board)[1]],
            1, Len(todo))

(* the position in vals of the first greatest value (X) or first least (O) *)
FirstBest(vals, p) ==
  CHOOSE k \in 1..Len(vals) :
    /\ \A j \in 1..Len(vals) : IF p = X THEN vals[j] <= vals[k] ELSE vals[j] >= vals[k]
    /\ \A j \in 1..(k - 1) : vals[j] # vals[k]

(* C8: on a non-terminal board max_value (X to move) returns the first     *)
(* action, in the order actions(board) is iterated, whose successor value  *)
(* is the maximum, and min_value (O to move) the first whose successor     *)
(* value is the minimum; the value returned is that maximum or minimum.    *)
C8_FirstBestActionWins ==
  (pc = "called" /\ ~terminal(board)) =>
    LET todo == Enumerate(actions(board))
        vals == SuccessorValues(board)
        k == FirstBest(vals, player(board))
    IN ret = <<vals[k], todo[k]>>

(* max_value has returned on a board where a later action ties the best *)
C8_Witness ==
  /\ pc = "called" /\ ~terminal(board) /\ player(board) = X
  /\ LET todo == Enumerate(actions(board))
         vals == SuccessorValues(board)
     IN \E i, j \in 1..Len(todo) :
          i < j /\ todo[i] = ret[2] /\ vals[j] = ret[1]

(* the member of S that the order ord puts first *)
Position(a) == CHOOSE k \in 1..Len(ord) : ord[k] = a
FirstIterated(S) == CHOOSE a \in S : \A c \in S : Position(a) <= Position(c)

(* C9 as stated: from the empty board minimax returns a corner or the      *)
(* center, never an edge.                                                  *)
C9_OpeningIsCornerOrCenter ==
  (pc = "apply" /\ board = EmptyBoard) => action \in Corners \cup {Center}

(* C9 amended: from the empty board minimax returns the cell that is first *)
(* in the order actions(board) is iterated, whichever cell that is.        *)
C9_OpeningIsFirstEnumerated ==
  (pc = "apply" /\ board = EmptyBoard) => action = FirstIterated(actions(board))

(* minimax has returned the edge (0,1) from the empty board *)
C9_Witness == pc = "apply" /\ board = EmptyBoard /\ action = <<0,1>>

(* X at (0,0) and (0,1), O at (1,0), O to move *)
BlockBoard ==
  [EmptyBoard EXCEPT ![0] = [j \in Idx |-> IF j = 2 THEN EMPTY ELSE X], ![1][0] = O]

(* C10 as stated: on BlockBoard minimax returns (0,2). *)
C10_BlocksTopRow ==
  (pc = "called" /\ board = BlockBoard) => action = <<0,2>>

(* C10 amended: on BlockBoard every action of O has value +1, and minimax  *)
(* returns the first empty cell in the order actions(board) is iterated:   *)
(* (0,2) only when it comes before the five other empty cells.             *)
C10_ReturnsFirstEnumerated ==
  (pc = "called" /\ board = BlockBoard) =>
    /\ action = FirstIterated(actions(board))
    /\ \A a \in actions(board) : max_value(result(board, a).new_board)[1] = 1

(* minimax has returned (1,2) on BlockBoard *)
C10_Witness == pc = "called" /\ board = BlockBoard /\ action = <<1,2>>

(* C11: for every board, any assignment of None, X and O to the nine      *)
(* cells, the number of actions returned by actions(board) plus the number *)
(* of X cells plus the number of O cells is 9.                             *)
C11_ActionsAndMarksCoverBoard ==
  /\ Cardinality(actions(board)) + count(board, X) + count(board, O) = 9
  /\ pc = "inspected" =>
       Cardinality(ret[1]) + count(board, X) + count(board, O) = 9

(* actions has returned on a board no game reaches: four X, one O *)
C11_Witness ==
  /\ pc = "inspected" /\ count(board, X) = 4 /\ count(board, O) = 1
  /\ Cardinality(ret[1]) = 4

(* C13: utility(board) is 1 exactly when winner(board) is X, -1 exactly     *)
(* when it is O, 0 exactly when it is None; a full board with no line of   *)
(* three identical marks has winner None and utility 0.                    *)
C13_UtilityFollowsWinner ==
  pc = "inspected" =>
    /\ ret[3] = 1 <=> ret[2] = X
    /\ ret[3] = -1 <=> ret[2] = O
    /\ ret[3] = 0 <=> ret[2] = EMPTY
    /\ (actions(board) = {} /\ CompletedLines(board) = {})
         => (ret[2] = EMPTY /\ ret[3] = 0)

(* utility has returned 0 on a full board with no line of three *)
C13_Witness ==
  /\ pc = "inspected" /\ actions(board) = {} /\ CompletedLines(board) = {}
  /\ ret[2] = EMPTY /\ ret[3] = 0

(* the greatest of a non-empty set of numbers *)
Greatest(S) == CHOOSE m \in S : \A n \in S : n <= m

(* the recursion depth is measured on boards with at most MaxLevelsEmpty    *)
(* empty cells                                                             *)
MaxLevelsEmpty == 5

(* the number of levels of recursive calls below a search on b *)
RECURSIVE Levels(_)
Levels(b) ==
  IF terminal(b) THEN 0
  ELSE LET todo == Enumerate(actions(b))
       IN 1 + Greatest({Levels(result(b, todo[k]).new_board) : k \in 1..Len(todo)})

(* C12: on every board reached from the empty board, minimax returns       *)
(* normally: an action, or None on a terminal board, never the exception   *)
(* of result; each board the search visits next is returned by result      *)
(* without an exception and has one empty cell fewer (so a full board,     *)
(* which is terminal, is reached within as many levels as there are empty  *)
(* cells), and the recursion below the board, measured, is at most as many *)
(* levels deep as the board has empty cells.                               *)
C12_SearchIsTotal ==
  /\ \A a \in actions(board) :
       /\ result(board, a).raised = None
       /\ Cardinality(actions(result(board, a).new_board))
            = Cardinality(actions(board)) - 1
  /\ actions(board) = {} => terminal(board)
  /\ pc = "called" =>
       /\ action \in Cells \cup {None}
       /\ action = None <=> terminal(board)
       /\ Cardinality(actions(board)) <= MaxLevelsEmpty
            => Levels(board) <= Cardinality(actions(board))

(* minimax has returned an action after a search five levels deep *)
C12_Witness ==
  /\ pc = "called" /\ action \in Cells
  /\ Cardinality(actions(board)) = 5 /\ Levels(board) = 5

(* C14 as stated: on every board of a legal game at most one of the eight  *)
(* lines is completed with three identical marks.                          *)
C14_AtMostOneLine == Cardinality(CompletedLines(board)) <= 1

(* C14 amended: on every board of a legal game every completed line passes *)
(* through the cell marked last and holds the mark placed there; at most   *)
(* two lines are completed, and two only by X's fifth mark, which fills    *)
(* the board.                                                              *)
C14_LinesThroughLastMark ==
  /\ \A l \in CompletedLines(board) :
       arg \in l /\ l \in LinesOf(board, board[arg[1]][arg[2]])
  /\ Cardinality(CompletedLines(board)) <= 2
  /\ Cardinality(CompletedLines(board)) = 2 =>
       /\ LinesOf(board, O) = {}
       /\ count(board, X) = 5
       /\ actions(board) = {}

(* a legal game has stopped on a board with two completed lines *)
C14_Witness == pc = "stopped" /\ Cardinality(CompletedLines(board)) = 2

(* C17: on every board of play_game and of a legal game X and O never both *)
(* have a completed line: every completed line holds the mark winner       *)
(* returns, and winner returns None only when no line is completed, so the *)
(* order in which winner scans the lines does not change what it returns.  *)
C17_OneWinnerWhateverScanOrder ==
  /\ LinesOf(board, X) = {} \/ LinesOf(board, O) = {}
  /\ \A l \in CompletedLines(board) : l \in LinesOf(board, winner(board))
  /\ CompletedLines(board) = {} <=> winner(board) = EMPTY

(* a board where the line completed is the one winner scans last, the      *)
(* anti-diagonal, and the winner is O                                      *)
C17_Witness ==
  /\ LinesOf(board, O) = {{<<0,2>>, <<1,1>>, <<2,0>>}}
  /\ winner(board) = O

(* the extremum is compared on boards with at most MaxExtremumEmpty empty  *)
(* cells                                                                   *)
MaxExtremumEmpty == 3

(* the least of a non-empty set of numbers *)
Least(S) == CHOOSE m \in S : \A n \in S : m <= n

(* the pairs <<a, v>>: a an action of b, v the value the opponent's search *)
(* returns on result(b, a)                                                 *)
SuccessorPairs(b) ==
  {<<a, IF player(b) = X
        THEN min_value(result(b, a).new_board)[1]
        ELSE max_value(result(b, a).new_board)[1]>> : a \in actions(b)}

(* C15: on a non-terminal board the value max_value returns is the maximum *)
(* over the actions a of actions(board) of the value min_value returns on  *)
(* result(board, a), and the action returned attains it; min_value returns *)
(* the minimum over max_value of the successors and an action attaining    *)
(* it; every value returned is -1, 0 or 1.                                 *)
C15_ValueIsExtremumOfSuccessors ==
  pc = "called" =>
    /\ ret[1] \in {-1, 0, 1}
    /\ (~terminal(board) /\ Cardinality(actions(board)) <= MaxExtremumEmpty) =>
         LET pairs == SuccessorPairs(board)
             vals == {p[2] : p \in pairs}
         IN /\ ret[1] = IF player(board) = X THEN Greatest(vals) ELSE Least(vals)
            /\ <<ret[2], ret[1]>> \in pairs

(* max_value has returned 0 on a board where the first action visited      *)
(* loses and another draws                                                 *)
C15_Witness ==
  /\ pc = "called" /\ ~terminal(board) /\ player(board) = X
  /\ Cardinality(actions(board)) = 3 /\ ret[1] = 0
  /\ min_value(result(board, Head(Enumerate(actions(board)))).new_board)[1] = -1

(* a line is completed or the board is full *)
GameDecided(b) == CompletedLines(b) # {} \/ \A c \in Cells : b[c[1]][c[2]] # EMPTY

(* C16: in play_game no move is made on a terminal board: once a line is   *)
(* completed or the board is full no cell is set again, and the only step  *)
(* of the loop is its exit; whenever a cell is set, the board before was   *)
(* not decided.                                                            *)
C16_NoMoveAfterGameDecided ==
  [][/\ GameDecided(board) => (board' = board /\ pc' = "done")
     /\ board' # board => (~GameDecided(board) /\ ~terminal(board) /\ pc = "loop")
     /\ GameDecided(board) <=> terminal(board)]_vars

(* the loop has exited on a win of O with cells still empty *)
C16_Witness ==
  /\ pc = "done" /\ LinesOf(board, O) # {} /\ actions(board) # {}
  /\ output = "Computer wins! Better luck next time."

(* C18: make_move on an occupied cell returns False and leaves the board   *)
(* as it was; in play_game a cell holding X or O keeps its mark for ever,  *)
(* and a rejected human move leaves the board and the turn with the human. *)
C18_OccupiedCellsKeepTheirMark ==
  [][/\ \A c \in Cells : board[c[1]][c[2]] # EMPTY =>
          /\ board'[c[1]][c[2]] = board[c[1]][c[2]]
          /\ make_move(board, c[1], c[2]) = [returned |-> FALSE, board |-> board]
     /\ output' = "That position is already taken!" =>
          /\ board' = board /\ action' = action /\ pc' = "loop"
          /\ player(board') = X /\ ~terminal(board')]_vars

(* the human has been told that the cell is taken, with marks of both on   *)
(* the board                                                               *)
C18_Witness ==
  /\ pc = "loop" /\ output = "That position is already taken!"
  /\ count(board, X) = 2 /\ count(board, O) = 2

(* C19: play_game ends once the human enters a legal move on each of its   *)
(* turns: every move accepted fills exactly one empty cell with the mark   *)
(* of the player to move, every turn of the computer is an accepted move,  *)
(* only a turn of the human can leave the board as it was, the human       *)
(* always has a legal move to enter, and a board without empty cells (nine *)
(* accepted moves at most) ends the loop.                                  *)
C19_EveryMoveFillsOneCell ==
  [][/\ board' # board =>
          \E c \in actions(board) :
            /\ board' = [board EXCEPT ![c[1]][c[2]] = player(board)]
            /\ actions(board') = actions(board) \ {c}
     /\ (pc = "loop" /\ ~terminal(board) /\ player(board) = O) =>
          /\ action' \in actions(board)
          /\ board' = [board EXCEPT ![action'[1]][action'[2]] = O]
     /\ (pc = "loop" /\ ~terminal(board) /\ player(board) = X) =>
          /\ \E c \in actions(board) : make_move(board, c[1], c[2]).returned
          /\ pc' = "loop"
     /\ (pc = "loop" /\ terminal(board)) => (pc' = "done" /\ board' = board)
     /\ (pc = "loop" /\ actions(board) = {}) => pc' = "done"]_vars

(* a game has ended after nine accepted moves *)
C19_Witness ==
  /\ pc = "done" /\ count(board, X) = 5 /\ count(board, O) = 4
  /\ output = "It's a tie!"

====
